---------------------------- MODULE Spec2Model ----------------------------
(***************************************************************************)
(* Cart handlers of the e-commerce backend (package handlers): CreateCart, *)
(* AddOrUpdateCartItem, GetAllCartItems and RemoveCartItemFromCart, over   *)
(* the cart store (package repository, PostgreSQL through gorm) and the    *)
(* Redis cache config.RDB.                                                 *)
(*                                                                         *)
(* Every handler is cut at its store and cache calls: one action is one    *)
(* such call together with the local code that follows it up to the next   *)
(* call.  Spec interleaves the steps of concurrent requests; SpecSeq runs  *)
(* the same steps with one request in flight at a time.                    *)
(***************************************************************************)
EXTENDS Integers, Sequences, FiniteSets, TLC

(***************************************************************************)
(* Bounds of the model.                                                    *)
(***************************************************************************)
\* largest products.number_of_stock of a product
MaxStock == 2
\* largest ordinary quantity a request asks for
MaxQuantity == 2
\* requests served in one behaviour
MaxRequests == 4

Procs == {"r1", "r2"}
Main == "r1"
Users == {"u1", "u2"}
Products == {"p1", "p2"}
\* the user and the product the concurrent requests of Spec contend for
HotUsers == {"u1"}
HotProducts == {"p1"}

\* a nil pointer, and a pointer to x
Nil == <<"nil">>
Some(x) == <<"some", x>>
Val(ptr) == ptr[2]

(***************************************************************************)
(* Go's int (64 bits, two's complement, wrapping on overflow), as three    *)
(* limbs <<hi, mid, lo>> of 4 + 30 + 30 bits: the value is                 *)
(* hi * 2^60 + mid * 2^30 + lo with hi in -8..7 and mid, lo in 0..2^30-1.  *)
(***************************************************************************)
LimbBase == 2 ^ 30
HiSpan == 2 ^ 4

GoInt(n) ==
    IF n >= 0 THEN <<0, 0, n>> ELSE <<-1, LimbBase - 1, LimbBase + n>>

MaxInt64 == <<(HiSpan \div 2) - 1, LimbBase - 1, LimbBase - 1>>
MinInt64 == <<-(HiSpan \div 2), 0, 0>>

\* a + b of Go: the carries run up the limbs and the top limb wraps
GoAdd(a, b) ==
    LET lo == a[3] + b[3]
        mid == a[2] + b[2] + (lo \div LimbBase)
        hi == a[1] + b[1] + (mid \div LimbBase)
    IN  << ((hi + (HiSpan \div 2)) % HiSpan) - (HiSpan \div 2),
           mid % LimbBase,
           lo % LimbBase >>

\* a < b of Go
GoLess(a, b) ==
    \/ a[1] < b[1]
    \/ a[1] = b[1] /\ a[2] < b[2]
    \/ a[1] = b[1] /\ a[2] = b[2] /\ a[3] < b[3]

GoLeq(a, b) == a = b \/ GoLess(a, b)

(***************************************************************************)
(* Identifiers.  A uuid is a pair <<kind, n>>: gen_random_uuid() gives a   *)
(* cart or a cart-item row an id no user and no other row has.             *)
(***************************************************************************)
UUID(kind, n) == <<kind, n>>
UserUUID(u) == UUID("user", u)
ProductUUID(p) == UUID("product", p)
\* a product id that parses and names no product
UnknownProduct == UUID("product", "none")
\* a string uuid.Parse rejects
BadUUID == UUID("bad", "bad")

\* fmt.Sprintf("cart:%s", id.String())
CacheKey(id) == <<"cart:", id>>

\* json.Marshal of a []models.CartItems and json.Unmarshal back
Marshal(items) == <<"json", items>>
UnmarshalMut(data) == [ok |-> TRUE, items |-> {}]
Unmarshal(data) ==
    IF data[1] = "json" THEN [ok |-> TRUE, items |-> data[2]]
    ELSE [ok |-> FALSE, items |-> {}]

VARIABLES
    carts,      \* live rows of table carts: [ID, UserID]
    cartItems,  \* live rows of table cart_items: [ID, CartID, ProductID, Quantity]
    products,   \* ProductUUID -> [NumberOfStock]
    cache,      \* Redis: the entries [key, data] that are set, one per key
    req,        \* per request slot: the handler's position and locals, and
                \* (history) the store and cache calls it has made
    nreq,       \* requests started so far
    cacheFault, \* history: a call to Redis has failed
    dir,        \* the migrations directory: its file names, or NoDir
    schemaMigrations,   \* rows of table schema_migrations: [Version, Name]
    database,   \* the migration files whose SQL is committed, in order
    run         \* RunMigrations: its position and locals

cartVars == <<carts, cartItems, products, cache, req, nreq, cacheFault>>
migrateVars == <<dir, schemaMigrations, database, run>>
vars == <<carts, cartItems, products, cache, req, nreq, cacheFault,
          dir, schemaMigrations, database, run>>

Idle ==
    [pc |-> "idle", op |-> "none", identity |-> Nil, productId |-> Nil,
     quantity |-> GoInt(0), cart |-> Nil, product |-> Nil, cartItem |-> Nil,
     currentQtyInCart |-> GoInt(0), err |-> "nil", cachedData |-> Nil,
     cartItems |-> {}, cacheDel |-> "none", resp |-> <<>>, no |-> 0,
     userId |-> Nil, calls |-> <<>>, rowsAffected |-> 0]

\* RunMigrations is not running
NotRunning ==
    [pc |-> "idle", no |-> 0, executedVersions |-> {}, migrationFiles |-> <<>>,
     i |-> 0, pendingCount |-> 0, err |-> "nil", applied |-> <<>>,
     prev |-> "none"]

\* the migrations directory does not exist
NoDir == [exists |-> FALSE, files |-> {}]

\* no handler has returned with its answer not yet sent
Quiet == \A p \in Procs : req[p].pc # "done"

Init ==
    /\ carts = {}
    /\ cartItems = {}
    /\ \E n \in 1..MaxStock :
          products = [x \in {ProductUUID(y) : y \in Products} |->
                        [NumberOfStock |-> GoInt(n)]]
    /\ cache = {}
    /\ req = [p \in Procs |-> Idle]
    /\ nreq = 0
    /\ cacheFault = FALSE
    /\ dir = NoDir
    /\ schemaMigrations = {}
    /\ database = <<>>
    /\ run = NotRunning

(***************************************************************************)
(* Responses.  A handler that returns without writing one leaves the list  *)
(* empty.                                                                  *)
(***************************************************************************)
StatusOK == 200
StatusCreated == 201
StatusBadRequest == 400
StatusUnauthorized == 401
StatusInternalServerError == 500

Response(status, message, data) ==
    [status |-> status, message |-> message, data |-> data]

\* utils.ResponseSuccess / utils.ResponseError / c.JSON followed by return
Return(r, status, message, data) ==
    [r EXCEPT !.resp = Append(@, Response(status, message, data)),
              !.pc = "done"]

\* the handler runs off its end without a response
ReturnSilently(r) == [r EXCEPT !.pc = "done"]

\* the requests, with the call request p is making noted in its history
Called(p, name) == [req EXCEPT ![p].calls = Append(@, name)]

StoreCalls ==
    {"repository.GetCartByUserId", "repository.CreateCart",
     "repository.GetProductByUUID", "repository.GetCartItem",
     "repository.GetCartItems", "repository.CreateCartItem",
     "repository.UpdateCartItem", "repository.RemoveCartItemFrom"}
CacheCalls == {"config.RDB.Get", "config.RDB.Set", "config.RDB.Del"}

(***************************************************************************)
(* The cart store (package repository) and the schema it runs on.          *)
(***************************************************************************)
\* Cart.UserID carries gorm:"unique": no second live cart of one user
CartUserIDUniqueMut(userId) == TRUE
CartUserIDUnique(userId) == \A c \in carts : c.UserID # userId

\* CartItems carries an index on CartID and one on ProductID, neither
\* unique: an insert of a second row of one (cart, product) pair is accepted
CartItemsInsertAllowed(cartId, productId) == TRUE

\* repository.GetCartByUserId: the carts the lookup may return
GetCartByUserId(userId) == {c \in carts : c.UserID = userId}

\* repository.GetCartByUserId: the errors the lookup may return
GetCartErrors(userId) ==
    {"store"} \cup
    (IF GetCartByUserId(userId) = {} THEN {"gorm.ErrRecordNotFound"} ELSE {})

\* repository.CreateCart: the errors the insert may return
CreateCartErrors(userId) ==
    {"store"} \cup
    (IF CartUserIDUnique(userId) THEN {} ELSE {"gorm.ErrDuplicatedKey"})

\* repository.CreateCart: the table after the insert
CreateCartRow(userId, n) ==
    carts \cup {[ID |-> UUID("cart", n), UserID |-> userId]}

\* repository.GetCartItem: the rows the lookup may return
GetCartItem(cartId, productId) ==
    {i \in cartItems : i.CartID = cartId /\ i.ProductID = productId}

\* repository.GetCartItems
GetCartItems(cartId) == {i \in cartItems : i.CartID = cartId}

\* repository.CreateCartItem: the table after the insert
CreateCartItem(cartId, productId, quantity, n) ==
    cartItems \cup {[ID |-> UUID("item", n), CartID |-> cartId,
                     ProductID |-> productId, Quantity |-> quantity]}

\* repository.UpdateCartItem: the row of the item's ID takes the item's
\* quantity as it stands in the handler
UpdateCartItem(item) ==
    {IF i.ID = item.ID THEN [i EXCEPT !.Quantity = item.Quantity] ELSE i :
        i \in cartItems}

\* repository.RemoveCartItemFrom: no row of the pair is left; none is no error
RemoveCartItemFrom(cartId, productId) ==
    {i \in cartItems : ~(i.CartID = cartId /\ i.ProductID = productId)}

(***************************************************************************)
(* The cache (config.RDB).                                                 *)
(***************************************************************************)
RDBGet(key) == {e \in cache : e.key = key}
RDBDel(key) == {e \in cache : e.key # key}
RDBSet(key, data) == RDBDel(key) \cup {[key |-> key, data |-> data]}

(***************************************************************************)
(* Requests.                                                               *)
(***************************************************************************)
Ops == {"CreateCart", "AddOrUpdateCartItem", "GetAllCartItems",
        "RemoveCartItemFromCart", "GetCart", "DeleteCart"}
\* the two that name their user in the path (/cart/{userId})
AdminOps == {"GetCart", "DeleteCart"}

\* c.Get("userId"): absent, a string uuid.Parse rejects, or a user's id
NoIdentity == <<"absent">>
Identities(users) == {NoIdentity, BadUUID} \cup {UserUUID(u) : u \in users}

ProductInputs(prods) ==
    {UnknownProduct, BadUUID} \cup {ProductUUID(x) : x \in prods}

QuantityInputs ==
    {GoInt(n) : n \in -1..MaxQuantity} \cup {MaxInt64}

\* binding:"required,min=1" on Quantity, a uuid on ProductID
BindMut(productId, quantity) == productId # BadUUID
Bind(productId, quantity) ==
    /\ productId # BadUUID
    /\ GoLeq(GoInt(1), quantity)

\* lines 39-49: the identity, then the uuid it holds
CreateCartEntry(r) ==
    IF r.identity = NoIdentity
    THEN Return(r, StatusUnauthorized, "Unauthorized", Nil)
    ELSE IF r.identity = BadUUID
    THEN Return(r, StatusBadRequest, "invalid userid", Nil)
    ELSE [r EXCEPT !.pc = "CreateCartLookup"]

\* lines 91-106: the body is bound before the identity is looked at
AddOrUpdateCartItemEntry(r) ==
    IF ~Bind(r.productId, r.quantity)
    THEN Return(r, StatusBadRequest, "Invalid request body", Nil)
    ELSE IF r.identity = NoIdentity
    THEN Return(r, StatusUnauthorized, "Unauthorized", Nil)
    ELSE IF r.identity = BadUUID
    THEN Return(r, StatusBadRequest, "error", Nil)
    ELSE [r EXCEPT !.pc = "AddLookupCart"]

\* lines 188-198
GetAllCartItemsEntry(r) ==
    IF r.identity = NoIdentity
    THEN Return(r, StatusUnauthorized, "Unauthorized", Nil)
    ELSE IF r.identity = BadUUID
    THEN Return(r, StatusBadRequest, "error", Nil)
    ELSE [r EXCEPT !.pc = "GetLookupCart"]

\* lines 295-305
RemoveCartItemFromCartEntry(r) ==
    IF r.identity = NoIdentity
    THEN Return(r, StatusUnauthorized, "Unauthorized", Nil)
    ELSE IF r.identity = BadUUID
    THEN Return(r, StatusBadRequest, "error", Nil)
    ELSE [r EXCEPT !.pc = "RemoveLookupCart"]

\* lines 259-261: the body of GetCart is empty
GetCart(r) == ReturnSilently(r)

\* lines 276-278: the body of DeleteCart is empty
DeleteCart(r) == ReturnSilently(r)

Entry(r) ==
    CASE r.op = "CreateCart" -> CreateCartEntry(r)
      [] r.op = "AddOrUpdateCartItem" -> AddOrUpdateCartItemEntry(r)
      [] r.op = "GetAllCartItems" -> GetAllCartItemsEntry(r)
      [] r.op = "GetCart" -> GetCart(r)
      [] r.op = "DeleteCart" -> DeleteCart(r)
      [] OTHER -> RemoveCartItemFromCartEntry(r)

\* A request arrives: gin hands it to its handler, which runs up to its
\* first store call.
Arrive(p, users, prods) ==
    /\ req[p].pc = "idle"
    /\ Quiet
    /\ nreq < MaxRequests
    /\ \E op \in Ops, id \in Identities(users),
          pid \in ProductInputs(prods) \cup {Nil}, q \in QuantityInputs,
          uid \in {UserUUID(u) : u \in users} \cup {Nil} :
          /\ (pid = Nil) <=>
                (op \in {"CreateCart", "GetAllCartItems"} \cup AdminOps)
          /\ op # "AddOrUpdateCartItem" => q = GoInt(0)
          /\ (uid = Nil) <=> (op \notin AdminOps)
          /\ req' = [req EXCEPT ![p] =
                        Entry([Idle EXCEPT !.op = op, !.identity = id,
                                           !.productId = pid, !.quantity = q,
                                           !.userId = uid, !.no = nreq + 1])]
    /\ nreq' = nreq + 1
    /\ UNCHANGED <<migrateVars, carts, cartItems, products, cache, cacheFault>>

\* concurrent requests, all of one user and about one product
Start(p) == Arrive(p, HotUsers, HotProducts)

\* a request of any user about any product, with no other request in flight
StartSeq(p) ==
    /\ \A q \in Procs : req[q].pc = "idle"
    /\ Arrive(p, Users, Products)

(***************************************************************************)
(* CreateCart                                                              *)
(***************************************************************************)
\* line 52-56: the cart exists: it is the answer
CreateCartExistsMut(r) == [r EXCEPT !.pc = "CreateCartInsert"]
CreateCartExists(r) == Return(r, StatusOK, "Cart already exists", r.cart)

\* line 50-62: repository.GetCartByUserId and the three ways on
CreateCartLookup(p) ==
    /\ req[p].pc = "CreateCartLookup"
    /\ Quiet
    /\ \/ \E c \in GetCartByUserId(req[p].identity) :
            req' = [Called(p, "repository.GetCartByUserId") EXCEPT ![p] = CreateCartExists([@ EXCEPT !.cart = Some(c)])]
       \/ /\ GetCartByUserId(req[p].identity) = {}
          /\ req' = [Called(p, "repository.GetCartByUserId") EXCEPT ![p] =
                       [@ EXCEPT !.err = "gorm.ErrRecordNotFound",
                                 !.pc = "CreateCartInsert"]]
       \/ req' = [Called(p, "repository.GetCartByUserId") EXCEPT ![p] =
                    Return([@ EXCEPT !.err = "store"],
                           StatusInternalServerError, "Failed to fetch cart", Nil)]
    /\ UNCHANGED <<migrateVars, carts, cartItems, products, cache, nreq, cacheFault>>

\* line 66-70: an error of the create is answered 500, no error 201
CreateCartResultMut(r, err) ==
    Return([r EXCEPT !.err = err], StatusCreated, "Cart created", Nil)
CreateCartResult(r, err) ==
    IF err # "nil"
    THEN Return([r EXCEPT !.err = err], StatusInternalServerError,
                "Failed to create cart", Nil)
    ELSE Return([r EXCEPT !.err = "nil"], StatusCreated, "Cart created", Nil)

\* line 65-70: repository.CreateCart
CreateCartInsert(p) ==
    /\ req[p].pc = "CreateCartInsert"
    /\ Quiet
    /\ \/ /\ CartUserIDUnique(req[p].identity)
          /\ carts' = CreateCartRow(req[p].identity, req[p].no)
          /\ req' = [Called(p, "repository.CreateCart") EXCEPT ![p] =
                       CreateCartResult(@, "nil")]
       \/ /\ carts' = carts
          /\ \E e \in CreateCartErrors(req[p].identity) :
                req' = [Called(p, "repository.CreateCart") EXCEPT ![p] =
                          CreateCartResult(@, e)]
    /\ UNCHANGED <<migrateVars, cartItems, products, cache, nreq, cacheFault>>

CreateCart(p) == CreateCartLookup(p) \/ CreateCartInsert(p)

(***************************************************************************)
(* AddOrUpdateCartItem                                                     *)
(***************************************************************************)
\* line 108-110, 121-125: with no cart the handler creates one; another
\* error of the lookup is answered
AddCartLookupFailedMut(r, err) ==
    IF err = "gorm.ErrRecordNotFound"
    THEN [r EXCEPT !.err = err, !.pc = "AddLookupProduct"]
    ELSE Return([r EXCEPT !.err = err], StatusInternalServerError,
                "Internal server error", Nil)
AddCartLookupFailed(r, err) ==
    IF err = "gorm.ErrRecordNotFound"
    THEN [r EXCEPT !.err = err, !.pc = "AddCreateCart"]
    ELSE Return([r EXCEPT !.err = err], StatusInternalServerError,
                "Internal server error", Nil)

\* line 107-109, 121-125: repository.GetCartByUserId
AddLookupCart(p) ==
    /\ req[p].pc = "AddLookupCart"
    /\ Quiet
    /\ \/ \E c \in GetCartByUserId(req[p].identity) :
            req' = [Called(p, "repository.GetCartByUserId") EXCEPT ![p] =
                      [@ EXCEPT !.cart = Some(c), !.pc = "AddLookupProduct"]]
       \/ \E e \in GetCartErrors(req[p].identity) :
            req' = [Called(p, "repository.GetCartByUserId") EXCEPT ![p] =
                      AddCartLookupFailed(@, e)]
    /\ UNCHANGED <<migrateVars, carts, cartItems, products, cache, nreq, cacheFault>>

\* line 110-114: repository.CreateCart
AddCreateCart(p) ==
    /\ req[p].pc = "AddCreateCart"
    /\ Quiet
    /\ \/ /\ CartUserIDUnique(req[p].identity)
          /\ carts' = CreateCartRow(req[p].identity, req[p].no)
          /\ req' = [Called(p, "repository.CreateCart") EXCEPT ![p] =
                       [@ EXCEPT !.err = "nil", !.pc = "AddRefetchCart"]]
       \/ /\ carts' = carts
          /\ \E e \in CreateCartErrors(req[p].identity) :
                req' = [Called(p, "repository.CreateCart") EXCEPT ![p] =
                          Return([@ EXCEPT !.err = e],
                                 StatusInternalServerError, "Failed to create cart", Nil)]
    /\ UNCHANGED <<migrateVars, cartItems, products, cache, nreq, cacheFault>>

\* line 116-120: the cart just created is fetched
AddRefetchCart(p) ==
    /\ req[p].pc = "AddRefetchCart"
    /\ Quiet
    /\ \/ \E c \in GetCartByUserId(req[p].identity) :
            req' = [Called(p, "repository.GetCartByUserId") EXCEPT ![p] =
                      [@ EXCEPT !.cart = Some(c), !.pc = "AddLookupProduct"]]
       \/ \E e \in GetCartErrors(req[p].identity) :
            req' = [Called(p, "repository.GetCartByUserId") EXCEPT ![p] =
                      Return([@ EXCEPT !.err = e],
                             StatusInternalServerError, "Failed to fetch cart", Nil)]
    /\ UNCHANGED <<migrateVars, carts, cartItems, products, cache, nreq, cacheFault>>

\* line 129-132: any error of the product lookup is "does not exist"
AddProductResultMut(r, err) ==
    IF err # "nil"
    THEN Return([r EXCEPT !.err = err], StatusInternalServerError,
                "Internal server error", Nil)
    ELSE [r EXCEPT !.err = "nil", !.pc = "AddLookupItem"]
AddProductResult(r, err) ==
    IF err # "nil"
    THEN Return([r EXCEPT !.err = err], StatusBadRequest,
                "Product does not exist", Nil)
    ELSE [r EXCEPT !.err = "nil", !.pc = "AddLookupItem"]

\* line 128-132: repository.GetProductByUUID
AddLookupProduct(p) ==
    /\ req[p].pc = "AddLookupProduct"
    /\ Quiet
    /\ \/ /\ req[p].productId \in DOMAIN products
          /\ req' = [Called(p, "repository.GetProductByUUID") EXCEPT ![p] =
                       AddProductResult(
                           [@ EXCEPT !.product = Some(products[req[p].productId])],
                           "nil")]
       \/ /\ req[p].productId \notin DOMAIN products
          /\ req' = [Called(p, "repository.GetProductByUUID") EXCEPT ![p] =
                       AddProductResult(@, "gorm.ErrRecordNotFound")]
       \/ req' = [Called(p, "repository.GetProductByUUID") EXCEPT ![p] =
                    AddProductResult(@, "store")]
    /\ UNCHANGED <<migrateVars, carts, cartItems, products, cache, nreq, cacheFault>>

\* line 140: product.NumberOfStock < (req.Quantity + currentQtyInCart)
OutOfStockOnUpdateMut(stock, quantity, currentQtyInCart) ==
    GoLeq(stock, GoAdd(quantity, currentQtyInCart))
OutOfStockOnUpdate(stock, quantity, currentQtyInCart) ==
    GoLess(stock, GoAdd(quantity, currentQtyInCart))

\* line 150: (currentQtyInCart + req.Quantity) > product.NumberOfStock
OutOfStockOnInsertMut(stock, quantity, currentQtyInCart) == FALSE
OutOfStockOnInsert(stock, quantity, currentQtyInCart) ==
    GoLess(stock, GoAdd(currentQtyInCart, quantity))

\* line 138-139: currentQtyInCart and the item's new quantity
AddQuantity(item, quantity) ==
    [item EXCEPT !.Quantity = GoAdd(@, quantity)]

\* line 133-143, 148-153, 163-166: repository.GetCartItem and the stock check
AddLookupItem(p) ==
    /\ req[p].pc = "AddLookupItem"
    /\ Quiet
    /\ \/ \E i \in GetCartItem(Val(req[p].cart).ID, req[p].productId) :
            LET r == [Called(p, "repository.GetCartItem")[p] EXCEPT !.err = "nil",
                                    !.currentQtyInCart = i.Quantity,
                                    !.cartItem = Some(AddQuantity(i, req[p].quantity))]
            IN  req' = [Called(p, "repository.GetCartItem") EXCEPT ![p] =
                          IF OutOfStockOnUpdate(Val(r.product).NumberOfStock,
                                                r.quantity, r.currentQtyInCart)
                          THEN Return(r, StatusBadRequest, "Product out of stock", Nil)
                          ELSE [r EXCEPT !.pc = "AddUpdateItem"]]
       \/ /\ GetCartItem(Val(req[p].cart).ID, req[p].productId) = {}
          /\ LET r == [Called(p, "repository.GetCartItem")[p] EXCEPT !.err = "gorm.ErrRecordNotFound"]
             IN  req' = [Called(p, "repository.GetCartItem") EXCEPT ![p] =
                           IF OutOfStockOnInsert(Val(r.product).NumberOfStock,
                                                 r.quantity, r.currentQtyInCart)
                           THEN Return(r, StatusBadRequest, "Product out of stock", Nil)
                           ELSE [r EXCEPT !.pc = "AddInsertItem"]]
       \/ req' = [Called(p, "repository.GetCartItem") EXCEPT ![p] =
                    Return([@ EXCEPT !.err = "store"], StatusInternalServerError,
                           "Failed to fetch cart item", Nil)]
    /\ UNCHANGED <<migrateVars, carts, cartItems, products, cache, nreq, cacheFault>>

\* line 144-147: repository.UpdateCartItem
AddUpdateItem(p) ==
    /\ req[p].pc = "AddUpdateItem"
    /\ Quiet
    /\ \/ /\ cartItems' = UpdateCartItem(Val(req[p].cartItem))
          /\ req' = [Called(p, "repository.UpdateCartItem") EXCEPT ![p] = [@ EXCEPT !.pc = "AddDelCache"]]
       \/ /\ cartItems' = cartItems
          /\ req' = [Called(p, "repository.UpdateCartItem") EXCEPT ![p] =
                       Return(@, StatusInternalServerError,
                              "Failed to update cart item", Nil)]
    /\ UNCHANGED <<migrateVars, carts, products, cache, nreq, cacheFault>>

\* line 154-162: repository.CreateCartItem
AddInsertItem(p) ==
    /\ req[p].pc = "AddInsertItem"
    /\ Quiet
    /\ \/ /\ CartItemsInsertAllowed(Val(req[p].cart).ID, req[p].productId)
          /\ cartItems' = CreateCartItem(Val(req[p].cart).ID, req[p].productId,
                                         req[p].quantity, req[p].no)
          /\ req' = [Called(p, "repository.CreateCartItem") EXCEPT ![p] = [@ EXCEPT !.pc = "AddDelCache"]]
       \/ /\ cartItems' = cartItems
          /\ req' = [Called(p, "repository.CreateCartItem") EXCEPT ![p] =
                       Return(@, StatusInternalServerError,
                              "Failed to add cart item", Nil)]
    /\ UNCHANGED <<migrateVars, carts, products, cache, nreq, cacheFault>>

\* line 167: the key AddOrUpdateCartItem deletes
AddCacheKey(r) == CacheKey(Val(r.cart).ID)

\* line 170-173: the delete's error is printed, and the handler ends
AddDelCacheResultMut(r, err) ==
    IF err # "nil"
    THEN Return([r EXCEPT !.cacheDel = "error"], StatusInternalServerError,
                "Failed to clear cache", Nil)
    ELSE ReturnSilently([r EXCEPT !.cacheDel = "ok"])
AddDelCacheResult(r, err) ==
    ReturnSilently([r EXCEPT !.cacheDel = IF err # "nil" THEN "error" ELSE "ok"])

\* line 167-173: config.RDB.Del
AddDelCache(p) ==
    /\ req[p].pc = "AddDelCache"
    /\ Quiet
    /\ \/ /\ cache' = RDBDel(AddCacheKey(req[p]))
          /\ cacheFault' = cacheFault
          /\ req' = [Called(p, "config.RDB.Del") EXCEPT ![p] =
                       AddDelCacheResult(@, "nil")]
       \/ /\ cache' = cache
          /\ cacheFault' = TRUE
          /\ req' = [Called(p, "config.RDB.Del") EXCEPT ![p] =
                       AddDelCacheResult(@, "redis")]
    /\ UNCHANGED <<migrateVars, carts, cartItems, products, nreq>>

AddOrUpdateCartItem(p) ==
    \/ AddLookupCart(p)
    \/ AddCreateCart(p)
    \/ AddRefetchCart(p)
    \/ AddLookupProduct(p)
    \/ AddLookupItem(p)
    \/ AddUpdateItem(p)
    \/ AddInsertItem(p)
    \/ AddDelCache(p)

(***************************************************************************)
(* GetAllCartItems                                                         *)
(***************************************************************************)
\* line 200-208: repository.GetCartByUserId.  An error that is not
\* ErrRecordNotFound is answered and not returned from: line 209 then
\* dereferences the nil cart and the handler panics.
GetLookupCart(p) ==
    /\ req[p].pc = "GetLookupCart"
    /\ Quiet
    /\ \/ \E c \in GetCartByUserId(req[p].identity) :
            req' = [Called(p, "repository.GetCartByUserId") EXCEPT ![p] =
                      [@ EXCEPT !.cart = Some(c), !.pc = "GetCacheGet"]]
       \/ /\ GetCartByUserId(req[p].identity) = {}
          /\ req' = [Called(p, "repository.GetCartByUserId") EXCEPT ![p] =
                       Return([@ EXCEPT !.err = "gorm.ErrRecordNotFound"],
                              StatusInternalServerError, "Cart does not exist", Nil)]
       \/ req' = [Called(p, "repository.GetCartByUserId") EXCEPT ![p] =
                    [Return([@ EXCEPT !.err = "store"], StatusInternalServerError,
                            "Failed to fetch cart", Nil)
                        EXCEPT !.pc = "panic"]]
    /\ UNCHANGED <<migrateVars, carts, cartItems, products, cache, nreq, cacheFault>>

\* line 209: the nil dereference; gin's recovery ends the request
GetPanic(p) ==
    /\ req[p].pc = "panic"
    /\ Quiet
    /\ req' = [req EXCEPT ![p] =
                 ReturnSilently([@ EXCEPT !.err = "nil pointer dereference"])]
    /\ UNCHANGED <<migrateVars, carts, cartItems, products, cache, nreq, cacheFault>>

\* line 209: the key GetAllCartItems reads and sets
GetCacheKey(r) == CacheKey(Val(r.cart).ID)

\* line 225, 234, 243: the status of the three successful answers
GetFromStoreStatus == StatusOK
GetFallbackStatusMut == StatusInternalServerError
GetFallbackStatus == StatusOK
GetFromCacheStatus == StatusOK

\* line 229, 234: the items the fallback answers with
GetFallbackItems(cartId) == GetCartItems(cartId)

\* line 238-243: the payload of a hit is parsed; one that does not parse
\* is an internal error
GetCacheHitMut(r, u) ==
    IF u.ok
    THEN Return([r EXCEPT !.cartItems = u.items], GetFromCacheStatus,
                "data fetched from Redis", Some(u.items))
    ELSE [r EXCEPT !.err = "redis.Nil", !.pc = "GetLoadItems"]
GetCacheHit(r, u) ==
    IF u.ok
    THEN Return([r EXCEPT !.cartItems = u.items], GetFromCacheStatus,
                "data fetched from Redis", Some(u.items))
    ELSE Return([r EXCEPT !.err = "json"], StatusInternalServerError,
                "Failed to parse cache", Nil)

\* line 209-212, 227-228, 238-243: config.RDB.Get, and the hit
GetCacheGet(p) ==
    /\ req[p].pc = "GetCacheGet"
    /\ Quiet
    /\ \/ \E e \in RDBGet(GetCacheKey(req[p])) :
            /\ cacheFault' = cacheFault
            /\ LET r == [Called(p, "config.RDB.Get")[p] EXCEPT !.err = "nil", !.cachedData = e.data]
               IN  req' = [Called(p, "config.RDB.Get") EXCEPT ![p] =
                             GetCacheHit(r, Unmarshal(e.data))]
       \/ /\ RDBGet(GetCacheKey(req[p])) = {}
          /\ cacheFault' = cacheFault
          /\ req' = [Called(p, "config.RDB.Get") EXCEPT ![p] =
                       [@ EXCEPT !.err = "redis.Nil", !.pc = "GetLoadItems"]]
       \/ /\ cacheFault' = TRUE
          /\ req' = [Called(p, "config.RDB.Get") EXCEPT ![p] =
                       [@ EXCEPT !.err = "redis", !.pc = "GetFallback"]]
    /\ UNCHANGED <<migrateVars, carts, cartItems, products, cache, nreq>>

\* line 213-219: repository.GetCartItems on a miss
GetLoadItems(p) ==
    /\ req[p].pc = "GetLoadItems"
    /\ Quiet
    /\ \/ req' = [Called(p, "repository.GetCartItems") EXCEPT ![p] =
                    [@ EXCEPT !.cartItems = GetCartItems(Val(req[p].cart).ID),
                              !.pc = "GetCacheSet"]]
       \/ req' = [Called(p, "repository.GetCartItems") EXCEPT ![p] =
                    Return([@ EXCEPT !.err = "store"], StatusUnauthorized,
                           "Failed to fetch", Nil)]
    /\ UNCHANGED <<migrateVars, carts, cartItems, products, cache, nreq, cacheFault>>

\* line 222-226: the error of the Set is printed; the answer is the same
GetCacheSetResultMut(r, err) ==
    IF err # "nil"
    THEN Return([r EXCEPT !.err = err], StatusInternalServerError,
                "Failed to set cache", Nil)
    ELSE Return(r, GetFromStoreStatus, "data fetch successfully",
                Some(r.cartItems))
GetCacheSetResult(r, err) ==
    Return(r, GetFromStoreStatus, "data fetch successfully", Some(r.cartItems))

\* line 219-226: config.RDB.Set for 24 hours
GetCacheSet(p) ==
    /\ req[p].pc = "GetCacheSet"
    /\ Quiet
    /\ \/ /\ cache' = RDBSet(GetCacheKey(req[p]), Marshal(req[p].cartItems))
          /\ cacheFault' = cacheFault
          /\ req' = [Called(p, "config.RDB.Set") EXCEPT ![p] =
                       GetCacheSetResult(@, "nil")]
       \/ /\ cache' = cache
          /\ cacheFault' = TRUE
          /\ req' = [Called(p, "config.RDB.Set") EXCEPT ![p] =
                       GetCacheSetResult(@, "redis")]
    /\ UNCHANGED <<migrateVars, carts, cartItems, products, nreq>>

\* line 227-236: the cache is down; repository.GetCartItems
GetFallback(p) ==
    /\ req[p].pc = "GetFallback"
    /\ Quiet
    /\ \/ LET items == GetFallbackItems(Val(req[p].cart).ID)
          IN  req' = [Called(p, "repository.GetCartItems") EXCEPT ![p] =
                        Return([@ EXCEPT !.cartItems = items], GetFallbackStatus,
                               "data fetched from DB (Redis down)", Some(items))]
       \/ req' = [Called(p, "repository.GetCartItems") EXCEPT ![p] =
                    Return([@ EXCEPT !.err = "store"], StatusUnauthorized,
                           "Failed to fetch", Nil)]
    /\ UNCHANGED <<migrateVars, carts, cartItems, products, cache, nreq, cacheFault>>

GetAllCartItems(p) ==
    \/ GetLookupCart(p)
    \/ GetPanic(p)
    \/ GetCacheGet(p)
    \/ GetLoadItems(p)
    \/ GetCacheSet(p)
    \/ GetFallback(p)

(***************************************************************************)
(* RemoveCartItemFromCart                                                  *)
(***************************************************************************)
\* line 306-316: repository.GetCartByUserId, then the product id is parsed
RemoveLookupCart(p) ==
    /\ req[p].pc = "RemoveLookupCart"
    /\ Quiet
    /\ \/ \E c \in GetCartByUserId(req[p].identity) :
            LET r == [Called(p, "repository.GetCartByUserId")[p] EXCEPT !.cart = Some(c)]
            IN  req' = [Called(p, "repository.GetCartByUserId") EXCEPT ![p] =
                          IF r.productId = BadUUID
                          THEN Return(r, StatusBadRequest, "Invalid product ID", Nil)
                          ELSE [r EXCEPT !.pc = "RemoveItem"]]
       \/ \E e \in GetCartErrors(req[p].identity) :
            req' = [Called(p, "repository.GetCartByUserId") EXCEPT ![p] =
                      Return([@ EXCEPT !.err = e],
                             StatusInternalServerError, "Failed to fetch cart", Nil)]
    /\ UNCHANGED <<migrateVars, carts, cartItems, products, cache, nreq, cacheFault>>

\* line 318-321: only an error of the delete is answered; how many rows
\* the delete met (r.rowsAffected, history) is not looked at
RemoveItemResultMut(r, err) ==
    IF err # "nil" \/ r.rowsAffected = 0
    THEN Return([r EXCEPT !.err = err], StatusInternalServerError,
                "Failed to remove cart item", Nil)
    ELSE [r EXCEPT !.pc = "RemoveDelCache"]
RemoveItemResult(r, err) ==
    IF err # "nil"
    THEN Return([r EXCEPT !.err = err], StatusInternalServerError,
                "Failed to remove cart item", Nil)
    ELSE [r EXCEPT !.pc = "RemoveDelCache"]

\* line 317-321: repository.RemoveCartItemFrom
RemoveItem(p) ==
    /\ req[p].pc = "RemoveItem"
    /\ Quiet
    /\ \/ /\ cartItems' = RemoveCartItemFrom(Val(req[p].cart).ID, req[p].productId)
          /\ req' = [Called(p, "repository.RemoveCartItemFrom") EXCEPT ![p] =
                       RemoveItemResult(
                           [@ EXCEPT !.rowsAffected =
                               Cardinality(GetCartItem(Val(req[p].cart).ID,
                                                       req[p].productId))],
                           "nil")]
       \/ /\ cartItems' = cartItems
          /\ req' = [Called(p, "repository.RemoveCartItemFrom") EXCEPT ![p] =
                       RemoveItemResult(@, "store")]
    /\ UNCHANGED <<migrateVars, carts, products, cache, nreq, cacheFault>>

\* line 323: the key RemoveCartItemFromCart deletes
RemoveCacheKey(r) == CacheKey(r.identity)

\* line 323-327: config.RDB.Del, its result dropped, and the handler ends
RemoveDelCache(p) ==
    /\ req[p].pc = "RemoveDelCache"
    /\ Quiet
    /\ \/ /\ cache' = RDBDel(RemoveCacheKey(req[p]))
          /\ cacheFault' = cacheFault
          /\ req' = [Called(p, "config.RDB.Del") EXCEPT ![p] = ReturnSilently([@ EXCEPT !.cacheDel = "ok"])]
       \/ /\ cache' = cache
          /\ cacheFault' = TRUE
          /\ req' = [Called(p, "config.RDB.Del") EXCEPT ![p] = ReturnSilently([@ EXCEPT !.cacheDel = "error"])]
    /\ UNCHANGED <<migrateVars, carts, cartItems, products, nreq>>

RemoveCartItemFromCart(p) ==
    \/ RemoveLookupCart(p)
    \/ RemoveItem(p)
    \/ RemoveDelCache(p)

(***************************************************************************)
(* The cache drops an entry when its 24 hours are over.                    *)
(***************************************************************************)
CacheExpire ==
    /\ Quiet
    /\ \E e \in cache : cache' = cache \ {e}
    /\ UNCHANGED <<migrateVars, carts, cartItems, products, req, nreq, cacheFault>>

\* An entry's payload is no longer the JSON of an item list (the entry was
\* written by something else than GetAllCartItems, or damaged): a fault of
\* the cache.
Corrupted == <<"garbage">>

CacheCorrupt ==
    /\ Quiet
    /\ \E e \in cache :
          /\ e.data # Corrupted
          /\ cache' = (cache \ {e}) \cup {[e EXCEPT !.data = Corrupted]}
    /\ cacheFault' = TRUE
    /\ UNCHANGED <<migrateVars, carts, cartItems, products, req, nreq>>

\* The handler has returned: gin sends what it wrote and the request is
\* over.  Nothing else runs between a handler's return and this step.
Respond(p) ==
    /\ req[p].pc = "done"
    /\ req' = [req EXCEPT ![p] = Idle]
    /\ UNCHANGED <<migrateVars, carts, cartItems, products, cache, nreq, cacheFault>>

Handler(p) ==
    \/ CreateCart(p)
    \/ AddOrUpdateCartItem(p)
    \/ GetAllCartItems(p)
    \/ RemoveCartItemFromCart(p)

\* concurrent requests: gin serves each in its own goroutine
Next ==
    \/ \E p \in Procs : Start(p) \/ Handler(p) \/ Respond(p)
    \/ CacheExpire
    \/ CacheCorrupt

Spec == Init /\ [][Next]_vars

\* requests one at a time
NextSeq ==
    \/ StartSeq(Main)
    \/ Handler(Main)
    \/ Respond(Main)
    \/ CacheExpire
    \/ CacheCorrupt

SpecSeq == Init /\ [][NextSeq]_vars

(***************************************************************************)
(* The migrate command: config.RunMigrations over the migrations directory *)
(* and table schema_migrations.  One action is one call of the database or *)
(* of the file system with the local code that follows it.  A file name is *)
(* the sequence of its bytes.                                              *)
(***************************************************************************)
\* most files in the migrations directory
MaxFiles == 3
\* runs of the command in one behaviour
MaxRuns == 2

\* ".sql", ".up.sql" and "atlas.sum"
DotSql == <<46, 115, 113, 108>>
DotUpSql == <<46, 117, 112, 46, 115, 113, 108>>
AtlasSum == <<97, 116, 108, 97, 115, 46, 115, 117, 109>>

\* "1_a.down.sql", "1_a.up.sql", "2_b.up.sql", "10_c.sql", "x.sql" and
\* "atlas.sum"
MigrationNames ==
    { <<49, 95, 97, 46, 100, 111, 119, 110, 46, 115, 113, 108>>,
      <<49, 95, 97, 46, 117, 112, 46, 115, 113, 108>>,
      <<50, 95, 98, 46, 117, 112, 46, 115, 113, 108>>,
      <<49, 48, 95, 99, 46, 115, 113, 108>>,
      <<120, 46, 115, 113, 108>>,
      AtlasSum }

Dirs ==
    {NoDir} \cup
    {[exists |-> TRUE, files |-> d] :
        d \in {x \in SUBSET MigrationNames : Cardinality(x) <= MaxFiles}}

\* strings.HasSuffix and strings.TrimSuffix
HasSuffix(str, suffix) ==
    /\ Len(str) >= Len(suffix)
    /\ SubSeq(str, Len(str) - Len(suffix) + 1, Len(str)) = suffix
TrimSuffix(str, suffix) ==
    IF HasSuffix(str, suffix) THEN SubSeq(str, 1, Len(str) - Len(suffix)) ELSE str

\* a < b of two Go strings: byte by byte, a proper prefix first
StringLess(a, b) ==
    \E n \in 1..Len(b) :
        /\ \A k \in 1..(n - 1) : k <= Len(a) /\ a[k] = b[k]
        /\ n > Len(a) \/ a[n] < b[n]

\* sort.Strings
RECURSIVE SortStrings(_)
SortStrings(names) ==
    IF names = {} THEN <<>>
    ELSE LET first == CHOOSE x \in names :
                        \A y \in names \ {x} : StringLess(x, y)
         IN  <<first>> \o SortStrings(names \ {first})

\* fmt.Sscanf(fileName, "%d", &version): the decimal digits the name
\* starts with; a name that starts with none is an error
IsDigit(c) == c \in 48..57
RECURSIVE ScanInt(_, _)
ScanInt(str, acc) ==
    IF str = <<>> \/ ~IsDigit(Head(str)) THEN acc
    ELSE ScanInt(Tail(str), acc * 10 + (Head(str) - 48))
Sscanf(str) ==
    IF str # <<>> /\ IsDigit(Head(str))
    THEN [err |-> "nil", version |-> ScanInt(str, 0)]
    ELSE [err |-> "input does not match format", version |-> 0]

\* line 64-70: the .sql files of the directory, sorted by name
MigrationFiles(files) ==
    SortStrings({f \in files : HasSuffix(f, DotSql) /\ f # AtlasSum})

\* Version carries gorm:"uniqueIndex"
VersionUnique(version) == \A m \in schemaMigrations : m.Version # version

\* RunMigrations returns err (nil: success)
RunReturn(r, err) == [r EXCEPT !.pc = "done", !.err = err]

InitMigrate ==
    /\ carts = {}
    /\ cartItems = {}
    /\ products = <<>>
    /\ cache = {}
    /\ req = [p \in Procs |-> Idle]
    /\ nreq = 0
    /\ cacheFault = FALSE
    /\ dir \in Dirs
    /\ schemaMigrations = {}
    /\ database = <<>>
    /\ run = NotRunning

\* line 33-39: the command starts; db.AutoMigrate(&SchemaMigration{})
RunMigrationsAutoMigrate ==
    /\ run.pc = "idle"
    /\ run.no < MaxRuns
    /\ \/ run' = [NotRunning EXCEPT !.pc = "Find", !.no = run.no + 1,
                                     !.prev = run.prev]
       \/ run' = RunReturn([NotRunning EXCEPT !.no = run.no + 1,
                                              !.prev = run.prev],
                           "failed to create schema_migrations table")
    /\ UNCHANGED <<cartVars, dir, schemaMigrations, database>>

\* line 42-50: the versions recorded when the run starts
RunMigrationsFind ==
    /\ run.pc = "Find"
    /\ \/ run' = [run EXCEPT !.executedVersions =
                                 {m.Version : m \in schemaMigrations},
                              !.pc = "ReadDir"]
       \/ run' = RunReturn(run, "failed to fetch executed migrations")
    /\ UNCHANGED <<cartVars, dir, schemaMigrations, database>>

\* line 53-75: os.ReadDir, the filter and the sort
RunMigrationsReadDir ==
    /\ run.pc = "ReadDir"
    /\ \/ /\ ~dir.exists
          /\ run' = RunReturn(run, "nil")
       \/ /\ dir.exists
          /\ run' = IF MigrationFiles(dir.files) = <<>>
                    THEN RunReturn(run, "nil")
                    ELSE [run EXCEPT !.migrationFiles = MigrationFiles(dir.files),
                                     !.i = 1, !.pc = "Loop"]
       \/ /\ dir.exists
          /\ run' = RunReturn(run, "failed to read migrations directory")
    /\ UNCHANGED <<cartVars, dir, schemaMigrations, database>>

\* line 90: the file is skipped when its version was recorded when the run
\* started
AlreadyExecuted(r, version) == version \in r.executedVersions

\* line 79-100, 132-138: the next file: its version is parsed, a file
\* without one or with an executed one is skipped, the file is read; after
\* the last file the run returns nil
RunMigrationsNext ==
    /\ run.pc = "Loop"
    /\ \/ /\ run.i > Len(run.migrationFiles)
          /\ run' = RunReturn(run, "nil")
       \/ /\ run.i <= Len(run.migrationFiles)
          /\ LET scan == Sscanf(run.migrationFiles[run.i])
             IN  run' = IF scan.err # "nil" \/ AlreadyExecuted(run, scan.version)
                        THEN [run EXCEPT !.i = @ + 1]
                        ELSE [run EXCEPT !.pc = "Transaction"]
       \/ /\ run.i <= Len(run.migrationFiles)
          /\ LET scan == Sscanf(run.migrationFiles[run.i])
             IN  scan.err = "nil" /\ ~AlreadyExecuted(run, scan.version)
          /\ run' = RunReturn(run, "failed to read migration file")
    /\ UNCHANGED <<cartVars, dir, schemaMigrations, database>>

\* line 104-122: db.Transaction: the file's SQL, then its row; both are
\* committed when neither fails and neither otherwise
TransactionMut(fileName, version, err) ==
    IF err \in {"nil", "failed to record migration"}
    THEN <<Append(database, fileName),
           IF err = "nil"
           THEN schemaMigrations \cup
                  {[Version |-> version, Name |-> TrimSuffix(fileName, DotUpSql)]}
           ELSE schemaMigrations>>
    ELSE <<database, schemaMigrations>>
Transaction(fileName, version, err) ==
    IF err = "nil"
    THEN <<Append(database, fileName),
           schemaMigrations \cup
             {[Version |-> version, Name |-> TrimSuffix(fileName, DotUpSql)]}>>
    ELSE <<database, schemaMigrations>>

\* line 106-119: what the transaction's function may return; the row of a
\* version that is recorded is refused
TransactionErrors(version) ==
    {"migration failed", "failed to record migration"} \cup
    (IF VersionUnique(version) THEN {"nil"} ELSE {})

\* line 124-129: an error of the transaction ends the run
TransactionResult(r, err) ==
    IF err # "nil"
    THEN RunReturn(r, err)
    ELSE [r EXCEPT !.i = @ + 1, !.pendingCount = @ + 1, !.pc = "Loop",
                   !.applied = Append(@, r.migrationFiles[r.i])]

\* line 102-130: the migration of one file
RunMigrationsTransaction ==
    /\ run.pc = "Transaction"
    /\ LET fileName == run.migrationFiles[run.i]
           version == Sscanf(fileName).version
       IN  \E err \in TransactionErrors(version) :
              /\ database' = Transaction(fileName, version, err)[1]
              /\ schemaMigrations' = Transaction(fileName, version, err)[2]
              /\ run' = TransactionResult(run, err)
    /\ UNCHANGED <<cartVars, dir>>

\* the command is over
RunMigrationsReturn ==
    /\ run.pc = "done"
    /\ run' = [NotRunning EXCEPT !.no = run.no, !.prev = run.err]
    /\ UNCHANGED <<cartVars, dir, schemaMigrations, database>>

NextMigrate ==
    \/ RunMigrationsAutoMigrate
    \/ RunMigrationsFind
    \/ RunMigrationsReadDir
    \/ RunMigrationsNext
    \/ RunMigrationsTransaction
    \/ RunMigrationsReturn

SpecMigrate == InitMigrate /\ [][NextMigrate]_vars

(***************************************************************************)
(* What the claims are stated with.                                        *)
(***************************************************************************)
\* a + b of two Go ints as a number: the top limb is not wrapped
ExactAdd(a, b) ==
    LET lo == a[3] + b[3]
        mid == a[2] + b[2] + (lo \div LimbBase)
    IN  <<a[1] + b[1] + (mid \div LimbBase), mid % LimbBase, lo % LimbBase>>

Done(p, op) == req[p].pc = "done" /\ req[p].op = op
Answered(p, status) ==
    Len(req[p].resp) = 1 /\ req[p].resp[1].status = status
StockOf(productId) == products[productId].NumberOfStock
\* the rows of the pair a request is about, now and after the step
PairRows(p) == GetCartItem(Val(req[p].cart).ID, req[p].productId)
PairRowsAfter(p) ==
    {i \in cartItems' : i.CartID = Val(req[p].cart).ID
                        /\ i.ProductID = req[p].productId}
\* the quantity the store holds for the pair, 0 with no row
PairQuantity(p) ==
    IF PairRows(p) = {} THEN GoInt(0) ELSE (CHOOSE i \in PairRows(p) : TRUE).Quantity

(***************************************************************************)
(* C1.  Requests one at a time, every Redis call succeeding: a             *)
(* GetAllCartItems answered 200 returns the item list the store holds for  *)
(* the cart.  A list that differs from the store's was cached before a     *)
(* write to the cart's items, so this is: after a successful write         *)
(* (AddOrUpdateCartItem, RemoveCartItemFromCart) the next read never       *)
(* returns the list cached before it.                                      *)
(***************************************************************************)
C1_ReadAfterWriteIsFresh ==
    ~cacheFault =>
        \A p \in Procs :
            Done(p, "GetAllCartItems") /\ Answered(p, StatusOK) =>
                req[p].resp[1].data = Some(GetCartItems(Val(req[p].cart).ID))

(***************************************************************************)
(* C2.  Requests one at a time: a CreateCart of a user answers 201 and     *)
(* leaves exactly one cart of the user, the one it created, or answers 200 *)
(* with the one cart of the user, which it did not create; it answers      *)
(* anything else only when a store call failed.  So with no cart the call  *)
(* answers 201, the next one 200 with that cart, and no user ever has two  *)
(* carts.                                                                  *)
(***************************************************************************)
C2_CreateCartIdempotent ==
    /\ \A u \in Users : Cardinality(GetCartByUserId(UserUUID(u))) <= 1
    /\ \A p \in Procs :
        Done(p, "CreateCart") /\ req[p].identity \in {UserUUID(u) : u \in Users} =>
            LET r == req[p]
                mine == GetCartByUserId(r.identity)
                created == [ID |-> UUID("cart", r.no), UserID |-> r.identity]
            IN  /\ Len(r.resp) = 1
                /\ r.resp[1].status = StatusCreated => mine = {created}
                /\ r.resp[1].status = StatusOK =>
                      /\ r.resp[1].data \in {Some(c) : c \in mine}
                      /\ created \notin mine
                /\ r.resp[1].status \notin {StatusOK, StatusCreated} =>
                      /\ r.resp[1].status = StatusInternalServerError
                      /\ r.err = "store"

\* a CreateCart of a user who has a cart is answered 200 with it
C2_Witness ==
    \E p \in Procs :
        /\ Done(p, "CreateCart")
        /\ Answered(p, StatusOK)
        /\ req[p].resp[1].data \in {Some(c) : c \in carts}
        /\ Val(req[p].resp[1].data).UserID = req[p].identity

(***************************************************************************)
(* C3.  Requests one at a time, an AddOrUpdateCartItem of quantity q for a *)
(* pair whose stored quantity is cur (0 with no row), cur + q <= stock:    *)
(* the stock check passes, the write leaves exactly one row of the pair,   *)
(* with quantity cur + q, and the handler ends without an error answer.    *)
(* With cur = q1 from a first add this is q1 then q2 giving q1 + q2.       *)
(***************************************************************************)
C3_Step(p) ==
    LET r == req[p]
        fits == ~GoLess(StockOf(r.productId), ExactAdd(PairQuantity(p), r.quantity))
    IN  /\ ( /\ r.pc = "AddLookupItem"
             /\ req'[p].pc # "AddLookupItem"
             /\ req'[p].err # "store"
             /\ fits )
           => req'[p].pc \in {"AddUpdateItem", "AddInsertItem"}
        /\ ( /\ r.pc \in {"AddUpdateItem", "AddInsertItem"}
             /\ req'[p].pc = "AddDelCache"
             /\ fits )
           => \E i \in cartItems' :
                 /\ PairRowsAfter(p) = {i}
                 /\ i.Quantity = ExactAdd(PairQuantity(p), r.quantity)
        /\ ( /\ r.op = "AddOrUpdateCartItem"
             /\ r.pc = "AddDelCache"
             /\ req'[p].pc = "done" )
           => req'[p].resp = <<>>

C3_AddAccumulates ==
    [][\A p \in Procs : req[p].op = "AddOrUpdateCartItem" => C3_Step(p)]_vars

\* a second add has brought the row from 1 to 2, the product's whole stock
C3_Witness ==
    \E p \in Procs :
        /\ Done(p, "AddOrUpdateCartItem")
        /\ req[p].resp = <<>>
        /\ req[p].currentQtyInCart = GoInt(1)
        /\ req[p].quantity = GoInt(1)
        /\ StockOf(req[p].productId) = GoInt(2)
        /\ \E i \in cartItems : PairRows(p) = {i} /\ i.Quantity = GoInt(2)

(***************************************************************************)
(* C4.  Requests one at a time: an AddOrUpdateCartItem that has looked the *)
(* pair's row up, with (the row's quantity, 0 with no row) + q above the   *)
(* product's stock, and none of whose store calls failed, is answered 400  *)
(* out of stock, has issued no cache delete, and leaves the row as it was  *)
(* found, or no row.                                                       *)
(***************************************************************************)
C4_OutOfStockRejected ==
    \A p \in Procs :
        LET r == req[p] IN
        ( /\ Done(p, "AddOrUpdateCartItem")
          /\ r.product # Nil
          /\ r.err # "store"
          /\ ~Answered(p, StatusInternalServerError)
          /\ GoLess(Val(r.product).NumberOfStock,
                    ExactAdd(r.currentQtyInCart, r.quantity)) )
        => /\ Answered(p, StatusBadRequest)
           /\ r.resp[1].message = "Product out of stock"
           /\ r.cacheDel = "none"
           /\ PairRows(p) =
                (IF r.cartItem = Nil THEN {}
                 ELSE {[Val(r.cartItem) EXCEPT !.Quantity = r.currentQtyInCart]})

(***************************************************************************)
(* C5.  After a RemoveCartItemFromCart that ended without an error and     *)
(* whose cache delete succeeded, the cache holds no entry under            *)
(* "cart:" + the cart's id.                                                *)
(***************************************************************************)
C5_RemoveInvalidatesCartKey ==
    \A p \in Procs :
        ( /\ Done(p, "RemoveCartItemFromCart")
          /\ req[p].resp = <<>>
          /\ req[p].cacheDel = "ok" )
        => RDBGet(CacheKey(Val(req[p].cart).ID)) = {}

(***************************************************************************)
(* C6.  Under any interleaving of concurrent requests the store holds at   *)
(* most one live cart-item row per (cart, product) pair.                   *)
(***************************************************************************)
C6_OneRowPerPair ==
    \A i, j \in cartItems :
        i.CartID = j.CartID /\ i.ProductID = j.ProductID => i = j

(***************************************************************************)
(* C7.  Under any interleaving of concurrent CreateCart and                *)
(* AddOrUpdateCartItem requests the store holds at most one live cart per  *)
(* user.                                                                   *)
(***************************************************************************)
C7_OneCartPerUser ==
    \A c, d \in carts : c.UserID = d.UserID => c = d

\* two requests raced to create the user's cart, and the second insert was
\* refused
C7_Witness ==
    \E p \in Procs :
        /\ req[p].pc = "done"
        /\ req[p].err = "gorm.ErrDuplicatedKey"
        /\ GetCartByUserId(req[p].identity) # {}

(***************************************************************************)
(* C8.  Requests one at a time, stock constant: every stored cart-item row *)
(* has 1 <= quantity <= the stock of its product.                          *)
(***************************************************************************)
C8_QuantityWithinStock ==
    \A i \in cartItems :
        /\ GoLeq(GoInt(1), i.Quantity)
        /\ GoLeq(i.Quantity, StockOf(i.ProductID))

(***************************************************************************)
(* C9.  Two concurrent AddOrUpdateCartItem for one cart and product.       *)
(***************************************************************************)
\* p and q have both read the same existing row at the same quantity,
\* passed the stock check and written
BothUpdated(p, q) ==
    /\ p # q
    /\ req[p].op = "AddOrUpdateCartItem" /\ req[q].op = "AddOrUpdateCartItem"
    /\ req[p].pc \in {"AddDelCache", "done"} /\ req[q].pc \in {"AddDelCache", "done"}
    /\ req[p].resp = <<>> /\ req[q].resp = <<>>
    /\ req[p].cartItem # Nil /\ req[q].cartItem # Nil
    /\ Val(req[p].cartItem).ID = Val(req[q].cartItem).ID
    /\ req[p].currentQtyInCart = req[q].currentQtyInCart

\* C9 as claimed, for the row that already exists: when both requests have
\* read the row, passed the check and written, and the row's quantity and
\* the two requested quantities together are above the stock, the quantity
\* persisted for the pair is above the stock.
C9_OvercommitOnExistingRow ==
    \A p, q \in Procs :
        ( /\ BothUpdated(p, q)
          /\ GoLess(StockOf(req[p].productId),
                    ExactAdd(ExactAdd(req[p].currentQtyInCart, req[p].quantity),
                             req[q].quantity)) )
        => \E i \in PairRows(p) : GoLess(StockOf(i.ProductID), i.Quantity)

\* C9 as amended: no row is ever persisted with a quantity above its
\* product's stock; two requests that both update the existing row leave it
\* at its old quantity plus the quantity of one of them (the other addition
\* is lost).  Stock is overcommitted only by the two rows that two requests
\* insert when neither found a row (C9_Witness).
C9_RowsWithinStock ==
    /\ \A i \in cartItems : GoLeq(i.Quantity, StockOf(i.ProductID))
    /\ \A p, q \in Procs :
          BothUpdated(p, q) =>
              \A i \in PairRows(p) :
                  i.ID = Val(req[p].cartItem).ID =>
                      i.Quantity \in {Val(req[p].cartItem).Quantity,
                                      Val(req[q].cartItem).Quantity}

\* both requests found no row, passed the check and inserted: two rows of
\* the pair, together above the stock
C9_Witness ==
    \E p, q \in Procs :
        /\ p # q
        /\ req[p].op = "AddOrUpdateCartItem" /\ req[q].op = "AddOrUpdateCartItem"
        /\ req[p].pc \in {"AddDelCache", "done"} /\ req[q].pc \in {"AddDelCache", "done"}
        /\ req[p].resp = <<>> /\ req[q].resp = <<>>
        /\ req[p].cart # Nil
        /\ \E i, j \in PairRows(p) :
              /\ i.ID = UUID("item", req[p].no)
              /\ j.ID = UUID("item", req[q].no)
              /\ GoLess(StockOf(i.ProductID), ExactAdd(i.Quantity, j.Quantity))

(***************************************************************************)
(* C10.  Requests one at a time: a GetAllCartItems of a user whose cart    *)
(* exists, whose cache Get failed with an error that is not a miss and     *)
(* whose store calls succeeded, is answered 200 with the item list the     *)
(* store holds for the cart.                                               *)
(***************************************************************************)
C10_ReadSurvivesCacheError ==
    \A p \in Procs :
        Done(p, "GetAllCartItems") /\ req[p].err = "redis" =>
            /\ Answered(p, StatusOK)
            /\ req[p].resp[1].data = Some(GetCartItems(Val(req[p].cart).ID))

\* such a read, of a cart that holds an item
C10_Witness ==
    \E p \in Procs :
        /\ Done(p, "GetAllCartItems")
        /\ req[p].err = "redis"
        /\ Answered(p, StatusOK)
        /\ Val(req[p].resp[1].data) # {}
        /\ Val(req[p].resp[1].data) = GetCartItems(Val(req[p].cart).ID)

(***************************************************************************)
(* C11.  Requests one at a time, every Redis call succeeding, for a        *)
(* GetAllCartItems that has found the user's cart.  With no entry under    *)
(* the cart's key the Get is a miss and the handler goes to the store;     *)
(* when that read ends it has queried the item list exactly once, the      *)
(* entry under the cart's key holds that list, and the answer is 200       *)
(* "data fetch successfully" with it.  With an entry under the key (the    *)
(* state the first read leaves) the handler answers 200 "data fetched      *)
(* from Redis" with the list the entry holds and has not queried the item  *)
(* list.                                                                   *)
(***************************************************************************)
C11_Step(p) ==
    LET r == req[p]
        key == CacheKey(Val(r.cart).ID)
        after == req'[p]
    IN  /\ ( /\ r.pc = "GetCacheGet"
             /\ after.pc # "GetCacheGet"
             /\ RDBGet(key) = {}
             /\ ~cacheFault' )
           => after.pc = "GetLoadItems"
        /\ ( /\ r.pc = "GetCacheSet"
             /\ after.pc = "done"
             /\ ~cacheFault' )
           => /\ after.calls = <<"repository.GetCartByUserId", "config.RDB.Get",
                                 "repository.GetCartItems", "config.RDB.Set">>
              /\ after.resp = <<Response(StatusOK, "data fetch successfully",
                                         Some(GetCartItems(Val(r.cart).ID)))>>
              /\ {e \in cache' : e.key = key} =
                    {[key |-> key, data |-> Marshal(GetCartItems(Val(r.cart).ID))]}
        /\ ( /\ r.pc = "GetCacheGet"
             /\ after.pc # "GetCacheGet"
             /\ RDBGet(key) # {}
             /\ ~cacheFault' )
           => /\ after.pc = "done"
              /\ after.calls = <<"repository.GetCartByUserId", "config.RDB.Get">>
              /\ Len(after.resp) = 1
              /\ after.resp[1].status = StatusOK
              /\ after.resp[1].message = "data fetched from Redis"
              /\ \E e \in RDBGet(key) :
                    e.data = Marshal(Val(after.resp[1].data))

C11_MissThenHit ==
    [][\A p \in Procs : req[p].op = "GetAllCartItems" => C11_Step(p)]_vars

\* the third request of a behaviour is a read answered from the cache with
\* a list that is not empty: the first request added the item, the second
\* was the read that filled the cache
C11_Witness ==
    \E p \in Procs :
        /\ Done(p, "GetAllCartItems")
        /\ ~cacheFault
        /\ req[p].no = 3
        /\ req[p].calls = <<"repository.GetCartByUserId", "config.RDB.Get">>
        /\ Answered(p, StatusOK)
        /\ req[p].resp[1].message = "data fetched from Redis"
        /\ Val(req[p].resp[1].data) # {}
        /\ Val(req[p].resp[1].data) = GetCartItems(Val(req[p].cart).ID)

(***************************************************************************)
(* C12.  Requests one at a time, a RemoveCartItemFromCart of a user whose  *)
(* cart exists.  When the store's delete reports no error the handler goes *)
(* on without a response, whether or not the pair had a row; the store     *)
(* then holds no row of the pair and every other row as it was, so with no *)
(* row of the pair before, every row is unchanged; and the handler ends    *)
(* without an error response and without touching a row again.  A first    *)
(* call leaves the pair without a row, so a second call in a row is the    *)
(* no-row case and leaves what the first left.                             *)
(***************************************************************************)
C12_Step(p) ==
    LET r == req[p]
        after == req'[p]
    IN  /\ ( /\ r.pc = "RemoveItem"
             /\ after.pc # "RemoveItem"
             /\ after.err # "store" )
           => /\ after.pc = "RemoveDelCache"
              /\ after.resp = <<>>
              /\ cartItems' = cartItems \ PairRows(p)
              /\ PairRows(p) = {} => cartItems' = cartItems
              /\ PairRowsAfter(p) = {}
        /\ ( /\ r.pc = "RemoveDelCache"
             /\ after.pc = "done" )
           => /\ after.resp = <<>>
              /\ cartItems' = cartItems

C12_RemoveIsIdempotent ==
    [][\A p \in Procs : req[p].op = "RemoveCartItemFromCart" => C12_Step(p)]_vars

\* a remove for a pair that had no row has ended without a response, in a
\* store that holds a row of another pair
C12_Witness ==
    \E p \in Procs :
        /\ Done(p, "RemoveCartItemFromCart")
        /\ "repository.RemoveCartItemFrom" \in
              {req[p].calls[n] : n \in 1..Len(req[p].calls)}
        /\ req[p].rowsAffected = 0
        /\ req[p].resp = <<>>
        /\ GetCartItems(Val(req[p].cart).ID) # {}

(***************************************************************************)
(* C13.  Requests one at a time: an AddOrUpdateCartItem that has persisted *)
(* its update or insert and then called the cache delete ends with no      *)
(* response written, so with no error response, and the store holds the    *)
(* row as the handler wrote it, when the delete failed exactly as when it  *)
(* succeeded.                                                              *)
(***************************************************************************)
\* the row request p has written: the row it read, with the new quantity,
\* or the row it inserted
Persisted(p) ==
    IF req[p].cartItem # Nil
    THEN Val(req[p].cartItem)
    ELSE [ID |-> UUID("item", req[p].no), CartID |-> Val(req[p].cart).ID,
          ProductID |-> req[p].productId, Quantity |-> req[p].quantity]

C13_CacheDelFailureIsNotFatal ==
    \A p \in Procs :
        Done(p, "AddOrUpdateCartItem") /\ req[p].cacheDel \in {"ok", "error"} =>
            /\ req[p].resp = <<>>
            /\ PairRows(p) = {Persisted(p)}

\* the cache delete after an update of an existing row has failed
C13_Witness ==
    \E p \in Procs :
        /\ Done(p, "AddOrUpdateCartItem")
        /\ req[p].cacheDel = "error"
        /\ req[p].cartItem # Nil
        /\ req[p].resp = <<>>
        /\ PairRows(p) = {Persisted(p)}

\* the operations of a user on the user's own cart
CartOps == Ops \ AdminOps
LastCall(r) == r.calls[Len(r.calls)]

(***************************************************************************)
(* C14.  A request of one of the four cart operations with no user         *)
(* identity is answered 401 whatever else it holds, and has made no store  *)
(* call and no cache call.                                                 *)
(***************************************************************************)
C14_NoIdentityIsUnauthorized ==
    \A p \in Procs :
        ( /\ req[p].pc = "done"
          /\ req[p].op \in CartOps
          /\ req[p].identity = NoIdentity )
        => /\ Answered(p, StatusUnauthorized)
           /\ req[p].calls = <<>>

(***************************************************************************)
(* C15.  In the four cart operations a failed call of the cart store (cart *)
(* lookup or create, item lookup, item list, item create, update or        *)
(* delete) is answered 500, and 401 is the answer only of a request with   *)
(* no user identity.                                                       *)
(***************************************************************************)
C15_StoreFailureIs500 ==
    \A p \in Procs :
        req[p].pc = "done" /\ req[p].op \in CartOps =>
            /\ ( /\ req[p].err = "store"
                 /\ LastCall(req[p]) # "repository.GetProductByUUID" )
               => Answered(p, StatusInternalServerError)
            /\ Answered(p, StatusUnauthorized) => req[p].identity = NoIdentity

(***************************************************************************)
(* C16.  Every request of one of the four cart operations ends with        *)
(* exactly one response written.                                           *)
(***************************************************************************)
C16_ExactlyOneResponse ==
    \A p \in Procs :
        req[p].pc = "done" /\ req[p].op \in CartOps => Len(req[p].resp) = 1

(***************************************************************************)
(* C17.  An AddOrUpdateCartItem whose quantity is below 1 is over when the *)
(* body is bound: it is answered 400 "Invalid request body", has made no   *)
(* store call and no cache call, and carts, cart-item rows and cache are   *)
(* as they were.                                                           *)
(***************************************************************************)
C17_Step(p) ==
    ( /\ req[p].pc = "idle"
      /\ req'[p].op = "AddOrUpdateCartItem"
      /\ GoLess(req'[p].quantity, GoInt(1)) )
    => /\ req'[p].pc = "done"
       /\ req'[p].resp =
             <<Response(StatusBadRequest, "Invalid request body", Nil)>>
       /\ req'[p].calls = <<>>
       /\ UNCHANGED <<carts, cartItems, cache>>

C17_NonPositiveQuantityRejected == [][\A p \in Procs : C17_Step(p)]_vars

\* a request of a user with a cart and a row, for a product in stock, with
\* quantity 0 or -1
C17_Witness ==
    \E p \in Procs :
        /\ Done(p, "AddOrUpdateCartItem")
        /\ GoLess(req[p].quantity, GoInt(1))
        /\ req[p].productId \in DOMAIN products
        /\ \E c \in GetCartByUserId(req[p].identity) : GetCartItems(c.ID) # {}
        /\ Answered(p, StatusBadRequest)
        /\ req[p].calls = <<>>

(***************************************************************************)
(* C18.  Requests one at a time: an AddOrUpdateCartItem for a product id   *)
(* that names no product changes no cart-item row and no cache entry at    *)
(* any of its steps, and its product lookup, when it reports not-found,    *)
(* ends it with 400 "Product does not exist".                              *)
(***************************************************************************)
C18_Step(p) ==
    /\ req'[p] # req[p] => UNCHANGED <<cartItems, cache>>
    /\ ( /\ req[p].pc = "AddLookupProduct"
         /\ req'[p] # req[p]
         /\ req'[p].err # "store" )
       => /\ req'[p].pc = "done"
          /\ req'[p].resp =
                <<Response(StatusBadRequest, "Product does not exist", Nil)>>

C18_UnknownProductRejected ==
    [][\A p \in Procs :
          ( /\ req[p].op = "AddOrUpdateCartItem"
            /\ req[p].productId = UnknownProduct ) => C18_Step(p)]_vars

\* such a request, of a user whose cart holds a row and has a cache entry
C18_Witness ==
    \E p \in Procs :
        /\ Done(p, "AddOrUpdateCartItem")
        /\ req[p].productId = UnknownProduct
        /\ req[p].err = "gorm.ErrRecordNotFound"
        /\ Answered(p, StatusBadRequest)
        /\ GetCartItems(Val(req[p].cart).ID) # {}
        /\ RDBGet(CacheKey(Val(req[p].cart).ID)) # {}

(***************************************************************************)
(* C19.  After DeleteCart(userId) the store holds no cart of that user,    *)
(* and GetCart(userId) answers with the cart of that user.                 *)
(***************************************************************************)
C19_AdminOpsAct ==
    \A p \in Procs :
        /\ Done(p, "DeleteCart") => GetCartByUserId(req[p].userId) = {}
        /\ Done(p, "GetCart") /\ GetCartByUserId(req[p].userId) # {} =>
              /\ Len(req[p].resp) = 1
              /\ req[p].resp[1].data \in
                    {Some(c) : c \in GetCartByUserId(req[p].userId)}

(***************************************************************************)
(* C20.  A GetAllCartItems whose cart lookup failed, with not-found or     *)
(* with another error, has written exactly one response, a 500, has made   *)
(* no call after the lookup, and has not dereferenced the cart it did not  *)
(* get.                                                                    *)
(***************************************************************************)
C20_CartLookupFailureStops ==
    \A p \in Procs :
        ( /\ Done(p, "GetAllCartItems")
          /\ req[p].calls # <<>>
          /\ req[p].cart = Nil )
        => /\ Answered(p, StatusInternalServerError)
           /\ req[p].calls = <<"repository.GetCartByUserId">>
           /\ req[p].err # "nil pointer dereference"

(***************************************************************************)
(* C21.  A GetAllCartItems whose cache Get returns, for the cart's key, a  *)
(* payload that does not parse is answered 500 "Failed to parse cache",    *)
(* has made no call after the Get (so no item-list query), and leaves the  *)
(* cache as it was.  The entry being left in place, this holds of every    *)
(* later read that meets it.                                               *)
(***************************************************************************)
C21_Step(p) ==
    LET r == req[p]
        after == req'[p]
    IN  ( /\ r.pc = "GetCacheGet"
          /\ after.pc # "GetCacheGet"
          /\ after.err # "redis"
          /\ \E e \in RDBGet(CacheKey(Val(r.cart).ID)) : ~Unmarshal(e.data).ok )
        => /\ after.pc = "done"
           /\ after.resp = <<Response(StatusInternalServerError,
                                      "Failed to parse cache", Nil)>>
           /\ after.calls = <<"repository.GetCartByUserId", "config.RDB.Get">>
           /\ cache' = cache

C21_CorruptPayloadIs500 ==
    [][\A p \in Procs : req[p].op = "GetAllCartItems" => C21_Step(p)]_vars

\* such a read of a cart that holds an item, the entry still in place
C21_Witness ==
    \E p \in Procs :
        /\ Done(p, "GetAllCartItems")
        /\ req[p].cachedData = Corrupted
        /\ Answered(p, StatusInternalServerError)
        /\ GetCartItems(Val(req[p].cart).ID) # {}
        /\ RDBGet(CacheKey(Val(req[p].cart).ID)) =
              {[key |-> CacheKey(Val(req[p].cart).ID), data |-> Corrupted]}

(***************************************************************************)
(* C22.  Requests one at a time, in GetAllCartItems.  When the cache Get   *)
(* fails with an error that is not a miss, the handler goes to the store   *)
(* and ends having issued no Set and with the cache as it was.  When the   *)
(* Get was a miss the handler ends, whether its Set succeeded or failed,   *)
(* with 200 "data fetch successfully" and the item list of the store.      *)
(***************************************************************************)
C22_Step(p) ==
    LET r == req[p]
        after == req'[p]
    IN  /\ ( r.pc = "GetCacheGet" /\ after.err = "redis" )
           => after.pc = "GetFallback" /\ cache' = cache
        /\ ( r.pc = "GetFallback" /\ after # r )
           => /\ after.pc = "done"
              /\ cache' = cache
              /\ after.calls = <<"repository.GetCartByUserId", "config.RDB.Get",
                                 "repository.GetCartItems">>
        /\ ( r.pc = "GetCacheSet" /\ after # r )
           => /\ after.pc = "done"
              /\ after.resp = <<Response(StatusOK, "data fetch successfully",
                                         Some(GetCartItems(Val(r.cart).ID)))>>
              /\ cache' # cache =>
                    cache' = RDBSet(CacheKey(Val(r.cart).ID),
                                    Marshal(GetCartItems(Val(r.cart).ID)))

C22_CacheWrittenOnlyOnMiss ==
    [][\A p \in Procs : req[p].op = "GetAllCartItems" => C22_Step(p)]_vars

\* a read after a miss whose Set failed: answered with the cart's item, and
\* no entry under the cart's key
C22_Witness ==
    \E p \in Procs :
        /\ Done(p, "GetAllCartItems")
        /\ req[p].calls # <<>>
        /\ LastCall(req[p]) = "config.RDB.Set"
        /\ RDBGet(CacheKey(Val(req[p].cart).ID)) = {}
        /\ Answered(p, StatusOK)
        /\ Val(req[p].resp[1].data) # {}
        /\ Val(req[p].resp[1].data) = GetCartItems(Val(req[p].cart).ID)

(***************************************************************************)
(* C23.  Under any interleaving: an AddOrUpdateCartItem that is at its     *)
(* product lookup, or past it, holds a cart that is a live cart of the     *)
(* requesting user in the store; when it created the cart, it fetched it   *)
(* again before the product lookup and the cart is the one it created.     *)
(* Past the lookup includes the requests ended by unknown-product and by   *)
(* out-of-stock: the cart is still in the store then.                      *)
(***************************************************************************)
AtOrPastProductLookup(p) ==
    /\ req[p].op = "AddOrUpdateCartItem"
    /\ \/ req[p].pc = "AddLookupProduct"
       \/ \E n \in 1..Len(req[p].calls) :
              req[p].calls[n] = "repository.GetProductByUUID"

C23_CartExistsAtProductLookup ==
    \A p \in Procs :
        AtOrPastProductLookup(p) =>
            /\ req[p].cart # Nil
            /\ Val(req[p].cart) \in GetCartByUserId(req[p].identity)
            /\ ( /\ Len(req[p].calls) >= 2
                 /\ req[p].calls[2] = "repository.CreateCart" ) =>
                  /\ SubSeq(req[p].calls, 1, 3) =
                        <<"repository.GetCartByUserId", "repository.CreateCart",
                          "repository.GetCartByUserId">>
                  /\ Val(req[p].cart) =
                        [ID |-> UUID("cart", req[p].no), UserID |-> req[p].identity]

\* a request that created the user's cart and was then refused for an
\* unknown product or for stock
C23_Witness ==
    \E p \in Procs :
        /\ Done(p, "AddOrUpdateCartItem")
        /\ AtOrPastProductLookup(p)
        /\ req[p].calls[2] = "repository.CreateCart"
        /\ Answered(p, StatusBadRequest)
        /\ carts = {[ID |-> UUID("cart", req[p].no), UserID |-> req[p].identity]}

(***************************************************************************)
(* C24.  CreateCart, under any interleaving.                               *)
(***************************************************************************)
\* the cart a request creates, when it creates one
Created(p) == [ID |-> UUID("cart", req[p].no), UserID |-> req[p].identity]

\* C24 as claimed: a CreateCart whose create failed is answered 500 and
\* the store holds no cart of the user
C24_FailedCreateLeavesNoCart ==
    \A p \in Procs :
        ( /\ Done(p, "CreateCart")
          /\ req[p].calls = <<"repository.GetCartByUserId", "repository.CreateCart">>
          /\ req[p].err # "nil" )
        => /\ Answered(p, StatusInternalServerError)
           /\ GetCartByUserId(req[p].identity) = {}

\* C24 as amended.  A CreateCart changes the carts only at its create,
\* which it reaches only from a lookup that reported not-found; a lookup
\* that fails otherwise ends it with 500; a create that fails ends it with
\* 500 and adds no cart: the carts are as they were and the request's own
\* cart is not among them.  A cart of the user can be in the store then,
\* created by another request since this request's lookup: a create
\* refused for the unique user id always meets one.
C24_Step(p) ==
    LET r == req[p]
        after == req'[p]
    IN  /\ ( after # r /\ carts' # carts ) => r.pc = "CreateCartInsert"
        /\ ( r.pc = "CreateCartLookup" /\ after.pc = "CreateCartInsert" )
           => after.err = "gorm.ErrRecordNotFound"
        /\ ( r.pc = "CreateCartLookup" /\ after.err = "store" )
           => /\ after.pc = "done"
              /\ after.resp = <<Response(StatusInternalServerError,
                                         "Failed to fetch cart", Nil)>>
              /\ carts' = carts
        /\ ( r.pc = "CreateCartInsert" /\ after # r /\ after.err # "nil" )
           => /\ after.pc = "done"
              /\ after.resp = <<Response(StatusInternalServerError,
                                         "Failed to create cart", Nil)>>
              /\ carts' = carts
              /\ Created(p) \notin carts'
              /\ after.err = "gorm.ErrDuplicatedKey" =>
                    GetCartByUserId(r.identity) # {}

C24_CreateOnlyOnNotFound ==
    [][\A p \in Procs : req[p].op = "CreateCart" => C24_Step(p)]_vars

\* a create refused for the cart a concurrent request created between this
\* request's lookup and its create
C24_Witness ==
    \E p \in Procs :
        /\ Done(p, "CreateCart")
        /\ req[p].calls = <<"repository.GetCartByUserId", "repository.CreateCart">>
        /\ req[p].err = "gorm.ErrDuplicatedKey"
        /\ Answered(p, StatusInternalServerError)
        /\ Created(p) \notin carts
        /\ GetCartByUserId(req[p].identity) # {}

(***************************************************************************)
(* C25.  Under any interleaving, every Redis call succeeding and no        *)
(* payload damaged: when no request is in flight, the entry under a cart's *)
(* key, if there is one, holds the item list the store holds for the cart. *)
(***************************************************************************)
C25_CacheFreshWhenQuiet ==
    ( ~cacheFault /\ \A p \in Procs : req[p].pc = "idle" ) =>
        \A c \in carts :
            \A e \in RDBGet(CacheKey(c.ID)) :
                e.data = Marshal(GetCartItems(c.ID))

\* RunMigrations: the file the transaction is about, a file's version, the
\* versions recorded, and the files of the run still to apply
CurrentFile == run.migrationFiles[run.i]
VersionOf(fileName) == Sscanf(fileName).version
Recorded == {m.Version : m \in schemaMigrations}
Pending ==
    {run.migrationFiles[n] : n \in 1..Len(run.migrationFiles)} \cap
    {f \in dir.files :
        /\ Sscanf(f).err = "nil"
        /\ VersionOf(f) \notin run.executedVersions
        /\ \A n \in 1..Len(run.applied) : run.applied[n] # f}

(***************************************************************************)
(* C26.  RunMigrations: schema_migrations never holds two rows of one      *)
(* version; no transaction is run for a file whose version is recorded in  *)
(* schema_migrations (the file is skipped); and a run that follows a run   *)
(* that returned success, over the same directory, runs no transaction and *)
(* returns success when it has read the directory.                         *)
(***************************************************************************)
C26_Step ==
    /\ \A a, b \in schemaMigrations' : a.Version = b.Version => a = b
    /\ ( run.pc = "Transaction" /\ run' # run )
       => VersionOf(CurrentFile) \notin Recorded
    /\ ( run.prev = "nil" /\ run' # run )
       => /\ run'.pc # "Transaction"
          /\ ( run.pc = "Loop" /\ run'.pc = "done" ) => run'.err = "nil"

C26_VersionAppliedAtMostOnce == [][C26_Step]_vars

(***************************************************************************)
(* C27.  RunMigrations commits the migration of a file only when no file   *)
(* still pending in the run has a smaller version.                         *)
(***************************************************************************)
C27_Step ==
    ( run.pc = "Transaction" /\ database' # database )
    => \A f \in Pending : VersionOf(f) >= VersionOf(CurrentFile)

C27_AscendingVersionOrder == [][C27_Step]_vars

(***************************************************************************)
(* C28.  RunMigrations: the files whose SQL is committed and the rows of   *)
(* schema_migrations are the same migrations, one row per committed file;  *)
(* a transaction that fails commits nothing and ends the run with its      *)
(* error; an ended run applies nothing more; and what is committed and     *)
(* recorded stays so.                                                      *)
(***************************************************************************)
C28_Step ==
    /\ Len(database') = Cardinality(schemaMigrations')
    /\ {VersionOf(database'[n]) : n \in 1..Len(database')} =
          {m.Version : m \in schemaMigrations'}
    /\ ( run.pc = "Transaction" /\ run' # run /\ database' = database )
       => /\ schemaMigrations' = schemaMigrations
          /\ run'.pc = "done"
          /\ run'.err # "nil"
    /\ ( run.pc = "Transaction" /\ database' # database )
       => /\ database' = Append(database, CurrentFile)
          /\ schemaMigrations' =
                schemaMigrations \cup
                  {[Version |-> VersionOf(CurrentFile),
                    Name |-> TrimSuffix(CurrentFile, DotUpSql)]}
          /\ run'.err = "nil"
    /\ run.pc = "done" => UNCHANGED <<database, schemaMigrations>>
    /\ Len(database') >= Len(database)
    /\ SubSeq(database', 1, Len(database)) = database
    /\ schemaMigrations \subseteq schemaMigrations'

C28_MigrationsAreAtomic == [][C28_Step]_vars

\* a run has applied a migration, failed at the next one and returned the
\* error with a file of the directory left unapplied
C28_Witness ==
    /\ run.pc = "done"
    /\ run.err = "migration failed"
    /\ run.applied # <<>>
    /\ database = run.applied
    /\ Cardinality(schemaMigrations) = Len(run.applied)
    /\ run.i < Len(run.migrationFiles)

====
